---- MODULE Spec2Model ----
(***************************************************************************)
(* Model of scripts/build_instance_image.py (SWE-PolyBench): one run of    *)
(* main() builds the Docker image of one benchmark instance.  Every        *)
(* collaborator call of main() (docker.from_env, DockerManager,            *)
(* RepoManager) is one step; its outcome is chosen by the environment.     *)
(* Strings are sequences of one-character strings so that str.lower() and  *)
(* the f-string concatenations are computed, not assumed.                  *)
(***************************************************************************)
EXTENDS Integers, Sequences, FiniteSets, TLC

\* ------------------------------------------------------------------ bounds
MaxLogLines == 12
MaxRuns == 2
RaceLogLines == 1
MaxRows == 3

\* --------------------------------------------------------------- strings
UpperChars == <<"A","B","C","D","E","F","G","H","I","J","K","L","M",
                "N","O","P","Q","R","S","T","U","V","W","X","Y","Z">>
LowerChars == <<"a","b","c","d","e","f","g","h","i","j","k","l","m",
                "n","o","p","q","r","s","t","u","v","w","x","y","z">>

\* str.lower() on one ASCII character
LowerChar(c) ==
    IF \E i \in DOMAIN UpperChars : UpperChars[i] = c
    THEN LowerChars[CHOOSE i \in DOMAIN UpperChars : UpperChars[i] = c]
    ELSE c

\* str.lower()
Lower(s) == [i \in DOMAIN s |-> LowerChar(s[i])]

\* the literal "Python" of the comparison in main()
PythonLiteral == <<"P","y","t","h","o","n">>
\* the literal prefix "polybench_" and suffix "_base" of the f-strings
PolybenchPrefix == <<"p","o","l","y","b","e","n","c","h","_">>
BaseSuffix == <<"_","b","a","s","e">>
Underscore == <<"_">>

\* the command-line values of `language` and `instance_id` that are explored
Languages == { <<"P","y","t","h","o","n">>, <<"p","y","t","h","o","n">>,
               <<"J","a","v","a">>, <<"j","a","v","a">> }
InstanceIds == { <<"X","1">>, <<"x","1">>, <<"b","a","s","e">> }

\* ------------------------------------------------- naming and decisions
\* base_image_id = f"polybench_{language.lower()}_base"
BaseImageId(language) == PolybenchPrefix \o Lower(language) \o BaseSuffix

\* variant: the language is inserted twice, the instance id not at all
ImageId_IgnoresId(language, instance_id) ==
    PolybenchPrefix \o Lower(language) \o Underscore \o Lower(language)

\* variant: the instance id is inserted without .lower()
ImageId_NoFold(language, instance_id) ==
    PolybenchPrefix \o Lower(language) \o Underscore \o instance_id

\* image_id = f"polybench_{language.lower()}_{instance_id.lower()}"
ImageId(language, instance_id) ==
    PolybenchPrefix \o Lower(language) \o Underscore \o Lower(instance_id)

\* variant: the base stage is entered for every language
RequiresBase_Always(language) == TRUE

\* variant: the base stage is never entered
RequiresBase_Never(language) == FALSE

\* if language != "Python":
RequiresBase(language) == language # PythonLiteral

\* after docker.from_env(): the base stage is entered only when required
AfterFromEnv(language) ==
    IF RequiresBase(language) THEN "base_check" ELSE "inst_check"

\* variant: the base image is rebuilt even when the check found it
BaseCheckTarget_AlwaysBuild(res) ==
    CASE res = "raise"   -> "except"
      [] res = "absent"  -> "base_build"
      [] res = "present" -> "base_build"

\* variant: an error of the check is swallowed and read as "not there"
BaseCheckTarget_ErrorAsAbsent(res) ==
    CASE res = "raise"   -> "base_build"
      [] res = "absent"  -> "base_build"
      [] res = "present" -> "inst_check"

\* if not base_docker_manager.check_image_local(...): build ... else: ...
\* (an error raised by the check propagates to the except clause)
BaseCheckTarget(res) ==
    CASE res = "raise"   -> "except"
      [] res = "absent"  -> "base_build"
      [] res = "present" -> "inst_check"

\* base_docker_manager.build_base_image(language=language): the value it
\* returns is discarded, only an exception leaves the straight line
BaseBuildTarget(res) ==
    IF res = "raise" THEN "except" ELSE "inst_check"

\* variant: an error of the instance check is read as "not there"
InstCheckTarget_ErrorAsAbsent(res) ==
    CASE res = "raise"   -> "clone"
      [] res = "present" -> "returned"
      [] res = "absent"  -> "clone"

\* variant: the early return for an existing image is missing
InstCheckTarget_NoSkip(res) ==
    CASE res = "raise"   -> "except"
      [] res = "present" -> "clone"
      [] res = "absent"  -> "clone"

\* if docker_manager.check_image_local(...): ... return 0
InstCheckTarget(res) ==
    CASE res = "raise"   -> "except"
      [] res = "present" -> "returned"
      [] res = "absent"  -> "clone"

\* variant: the result code of the build is not looked at
BuildStatus_AlwaysZero(code) == 0

\* if build_success != 0: ... return 1   /  return 0
BuildStatus(code) == IF code # 0 THEN 1 ELSE 0

\* the 10 of build_logs[-10:]
TailLines == 10

\* variant: build_logs[:10], the head instead of the tail
LogTail_Head(logs) ==
    IF Len(logs) <= TailLines THEN logs ELSE SubSeq(logs, 1, TailLines)

\* docker_manager.build_logs[-10:]
LogTail(logs) ==
    IF Len(logs) <= TailLines THEN logs
    ELSE SubSeq(logs, Len(logs) - TailLines + 1, Len(logs))

\* classes of the errors the collaborators raise; all derive from Exception
ErrorClasses == {"DockerException", "GitCommandError", "OSError"}
\* variant: except docker.errors.DockerException as e:
Catches_OnlyDocker(cls) == cls = "DockerException"

\* except Exception as e:
Catches(cls) == cls \in ErrorClasses

\* variant: the except clause reports success
ExceptStatus_Zero == 1 - 1

\* return 1 of the except clause
ExceptStatus == 1

\* if __name__ == "__main__": main()   -- the value main() returns is not
\* handed to sys.exit, the interpreter ends normally
ScriptExit(returned) == 0

\* ------------------------------------------------------------ collaborators
\* DockerManager.check_image_local(name): the answer of the local image store
CheckImageLocal(name, store) == IF name \in store THEN "present" ELSE "absent"
\* result codes docker_build can report
BuildCodes == {0, 1, 2}
\* the captured build log of n lines; line i is identified by its position
CapturedLog(n) == [i \in 1..n |-> i]

\* ------------------------------------------------------------------ state
Procs == {1, 2}

VARIABLES
    registry,        \* names of the images in the local engine store (shared)
    desc,            \* per process: the command-line descriptor
    pc,              \* per process: position in main()
    calls,           \* per process: collaborator calls made in this run
    out,             \* per process: lines printed to stdout in this run
    ret,             \* per process: value returned by main(), -1 before
    exitStatus,      \* per process: exit status of the process, -1 before
    exc,             \* per process: class of the exception in flight, or "none"
    repo_manager,    \* per process: the RepoManager object was constructed
    workspace,       \* per process: the cloned directory exists on disk
    build_success,   \* per process: result code of docker_build, -1 before
    build_logs,      \* per process: docker_manager.build_logs
    runNo,           \* per process: 1 for the first run, 2 for a re-run, ...
    presentAtStart,  \* per process: image_id was in the store at run start
    ld               \* the run of scripts/load_dataset.py (a record, see LdIdle)

mainVars == <<registry, desc, pc, calls, out, ret, exitStatus, exc, repo_manager,
              workspace, build_success, build_logs, runNo, presentAtStart>>
vars == <<registry, desc, pc, calls, out, ret, exitStatus, exc, repo_manager,
          workspace, build_success, build_logs, runNo, presentAtStart, ld>>

\* load_dataset.py is not running: pc is the position in its main(), dataset
\* the rows the source holds, columns the column names of the frame, offset
\* and limit the parsed options (limit.given is FALSE for None), df the frame
\* being narrowed, emitted the JSON lines written to stdout, status the exit
\* status of the process (-1 while it runs)
LdIdle == [pc |-> "idle", dataset |-> <<>>, columns |-> {}, offset |-> 0,
           limit |-> [given |-> FALSE, val |-> 0], df |-> <<>>,
           emitted |-> <<>>, status |-> -1]

Call(op, name, res) == [op |-> op, name |-> name, res |-> res]
Line(k, v) == [k |-> k, v |-> v]
NoName == <<>>

Descriptors == [language : Languages, instance_id : InstanceIds]

BaseName(p) == BaseImageId(desc[p].language)
InstName(p) == ImageId(desc[p].language, desc[p].instance_id)

\* Only process 1 runs; process 2 stays idle.
Init ==
    /\ desc \in [Procs -> Descriptors]
    /\ desc[2] = desc[1]
    /\ registry \in SUBSET { BaseImageId(desc[1].language),
                            ImageId(desc[1].language, desc[1].instance_id) }
    /\ pc = [p \in Procs |-> IF p = 1 THEN "from_env" ELSE "idle"]
    /\ calls = [p \in Procs |-> <<>>]
    /\ out = [p \in Procs |-> <<>>]
    /\ ret = [p \in Procs |-> -1]
    /\ exitStatus = [p \in Procs |-> -1]
    /\ exc = [p \in Procs |-> "none"]
    /\ repo_manager = [p \in Procs |-> FALSE]
    /\ workspace = [p \in Procs |-> FALSE]
    /\ build_success = [p \in Procs |-> -1]
    /\ build_logs = [p \in Procs |-> <<>>]
    /\ runNo = [p \in Procs |-> 1]
    /\ ld = LdIdle
    /\ presentAtStart = [p \in Procs |->
           p = 1 /\ ImageId(desc[p].language, desc[p].instance_id) \in registry]

\* ---------------------------------------------------------------- actions
\* client = docker.from_env(timeout=720)
FromEnv(p) ==
    /\ pc[p] = "from_env"
    /\ \E res \in {"ok"} \cup ErrorClasses :
          /\ calls' = [calls EXCEPT ![p] =
                 Append(@, Call("from_env", NoName,
                                IF res = "ok" THEN "ok" ELSE "raise"))]
          /\ IF res = "ok"
             THEN /\ pc' = [pc EXCEPT ![p] = AfterFromEnv(desc[p].language)]
                  /\ exc' = exc
             ELSE /\ pc' = [pc EXCEPT ![p] = "except"]
                  /\ exc' = [exc EXCEPT ![p] = res]
    /\ UNCHANGED <<ld, registry, desc, out, ret, exitStatus, repo_manager,
                   workspace, build_success, build_logs, runNo, presentAtStart>>

\* base_docker_manager.check_image_local(local_image_name=base_image_id)
BaseCheck(p) ==
    /\ pc[p] = "base_check"
    /\ \E err \in {"none"} \cup ErrorClasses :
          LET res == IF err = "none"
                     THEN CheckImageLocal(BaseName(p), registry)
                     ELSE "raise"
              tgt == BaseCheckTarget(res)
          IN /\ calls' = [calls EXCEPT ![p] =
                    Append(@, Call("check_base", BaseName(p), res))]
             /\ pc' = [pc EXCEPT ![p] = tgt]
             /\ exc' = [exc EXCEPT ![p] = IF res = "raise" THEN err ELSE @]
             /\ out' = [out EXCEPT ![p] =
                    CASE tgt = "base_build" -> Append(@, Line("building_base", 0))
                      [] tgt = "inst_check" -> Append(@, Line("base_exists", 0))
                      [] OTHER -> @]
    /\ UNCHANGED <<ld, registry, desc, ret, exitStatus, repo_manager, workspace,
                   build_success, build_logs, runNo, presentAtStart>>

\* base_docker_manager.build_base_image(language=language)
BaseBuild(p) ==
    /\ pc[p] = "base_build"
    /\ \E o \in {"ok", "fail"} \cup ErrorClasses :
          LET res == IF o \in ErrorClasses THEN "raise" ELSE o
          IN /\ calls' = [calls EXCEPT ![p] =
                    Append(@, Call("build_base_image", BaseName(p), res))]
             /\ registry' = IF res = "ok" THEN registry \cup {BaseName(p)}
                            ELSE registry
             /\ pc' = [pc EXCEPT ![p] = BaseBuildTarget(res)]
             /\ exc' = [exc EXCEPT ![p] = IF res = "raise" THEN o ELSE @]
    /\ UNCHANGED <<ld, desc, out, ret, exitStatus, repo_manager, workspace,
                   build_success, build_logs, runNo, presentAtStart>>

\* docker_manager.check_image_local(local_image_name=image_id)
InstCheck(p) ==
    /\ pc[p] = "inst_check"
    /\ \E err \in {"none"} \cup ErrorClasses :
          LET res == IF err = "none"
                     THEN CheckImageLocal(InstName(p), registry)
                     ELSE "raise"
              tgt == InstCheckTarget(res)
          IN /\ calls' = [calls EXCEPT ![p] =
                    Append(@, Call("check_inst", InstName(p), res))]
             /\ pc' = [pc EXCEPT ![p] = tgt]
             /\ exc' = [exc EXCEPT ![p] = IF res = "raise" THEN err ELSE @]
             /\ out' = [out EXCEPT ![p] =
                    CASE tgt = "returned" -> Append(@, Line("exists", 0))
                      [] tgt = "clone"    -> Append(@, Line("cloning", 0))
                      [] OTHER -> @]
             /\ ret' = [ret EXCEPT ![p] = IF tgt = "returned" THEN 0 ELSE @]
    /\ UNCHANGED <<ld, registry, desc, exitStatus, repo_manager, workspace,
                   build_success, build_logs, runNo, presentAtStart>>

\* repo_manager = RepoManager(...); repo_manager.clone_repo()
\* a failing clone may leave a partly written directory behind
Clone(p) ==
    /\ pc[p] = "clone"
    /\ \E o \in {"ok"} \cup ErrorClasses, partial \in BOOLEAN :
          LET res == IF o = "ok" THEN "ok" ELSE "raise"
          IN /\ (res = "ok" => partial)
             /\ calls' = [calls EXCEPT ![p] =
                    Append(@, Call("clone_repo", NoName, res))]
             /\ repo_manager' = [repo_manager EXCEPT ![p] = TRUE]
             /\ workspace' = [workspace EXCEPT ![p] = partial]
             /\ pc' = [pc EXCEPT ![p] = IF res = "ok" THEN "checkout" ELSE "except"]
             /\ exc' = [exc EXCEPT ![p] = IF res = "raise" THEN o ELSE @]
    /\ UNCHANGED <<ld, registry, desc, out, ret, exitStatus, build_success,
                   build_logs, runNo, presentAtStart>>

\* repo_manager.checkout_commit(commit_hash=base_commit)
Checkout(p) ==
    /\ pc[p] = "checkout"
    /\ \E o \in {"ok"} \cup ErrorClasses :
          LET res == IF o = "ok" THEN "ok" ELSE "raise"
          IN /\ calls' = [calls EXCEPT ![p] =
                    Append(@, Call("checkout_commit", NoName, res))]
             /\ pc' = [pc EXCEPT ![p] = IF res = "ok" THEN "docker_build" ELSE "except"]
             /\ exc' = [exc EXCEPT ![p] = IF res = "raise" THEN o ELSE @]
             /\ out' = [out EXCEPT ![p] =
                    IF res = "ok" THEN Append(@, Line("building", 0)) ELSE @]
    /\ UNCHANGED <<ld, registry, desc, ret, exitStatus, repo_manager, workspace,
                   build_success, build_logs, runNo, presentAtStart>>

\* build_success = docker_manager.docker_build(repo_path=..., dockerfile_content=...)
DockerBuild(p) ==
    /\ pc[p] = "docker_build"
    /\ \/ \E code \in BuildCodes, n \in 0..MaxLogLines :
             /\ calls' = [calls EXCEPT ![p] =
                    Append(@, Call("docker_build", InstName(p),
                                   IF code = 0 THEN "ok" ELSE "fail"))]
             /\ build_success' = [build_success EXCEPT ![p] = code]
             /\ build_logs' = [build_logs EXCEPT ![p] = CapturedLog(n)]
             /\ registry' = IF code = 0 THEN registry \cup {InstName(p)}
                            ELSE registry
             /\ pc' = [pc EXCEPT ![p] = "release"]
             /\ exc' = exc
       \/ \E o \in ErrorClasses :
             /\ calls' = [calls EXCEPT ![p] =
                    Append(@, Call("docker_build", InstName(p), "raise"))]
             /\ pc' = [pc EXCEPT ![p] = "except"]
             /\ exc' = [exc EXCEPT ![p] = o]
             /\ UNCHANGED <<build_success, build_logs, registry>>
    /\ UNCHANGED <<ld, desc, out, ret, exitStatus, repo_manager, workspace,
                   runNo, presentAtStart>>

\* repo_manager.__del__()   (the explicit teardown after the build)
Release(p) ==
    /\ pc[p] = "release"
    /\ \E o \in {"ok"} \cup ErrorClasses :
          LET res == IF o = "ok" THEN "ok" ELSE "raise"
          IN /\ calls' = [calls EXCEPT ![p] =
                    Append(@, Call("release", NoName, res))]
             /\ workspace' = [workspace EXCEPT ![p] = IF res = "ok" THEN FALSE ELSE @]
             /\ pc' = [pc EXCEPT ![p] = IF res = "ok" THEN "report" ELSE "except"]
             /\ exc' = [exc EXCEPT ![p] = IF res = "raise" THEN o ELSE @]
    /\ UNCHANGED <<ld, registry, desc, out, ret, exitStatus, repo_manager,
                   build_success, build_logs, runNo, presentAtStart>>

\* variant: the "Failed to build image" line is missing
FailureLines_NoAnnouncement(logs) ==
    IF logs # <<>>
    THEN <<Line("logs_header", 0)>> \o
         [i \in DOMAIN LogTail(logs) |-> Line("log", LogTail(logs)[i])]
    ELSE <<>>

\* the lines printed for a failed build: the announcement, then, when the
\* log is not empty, the header and the tail of the log
FailureLines(logs) ==
    <<Line("failed", 0)>> \o
    (IF logs # <<>>
     THEN <<Line("logs_header", 0)>> \o
          [i \in DOMAIN LogTail(logs) |-> Line("log", LogTail(logs)[i])]
     ELSE <<>>)

\* if build_success != 0: ... return 1 ; print("Successfully built ..."); return 0
Report(p) ==
    /\ pc[p] = "report"
    /\ ret' = [ret EXCEPT ![p] = BuildStatus(build_success[p])]
    /\ out' = [out EXCEPT ![p] =
           IF BuildStatus(build_success[p]) # 0
           THEN @ \o FailureLines(build_logs[p])
           ELSE Append(@, Line("success", 0))]
    /\ pc' = [pc EXCEPT ![p] = "returned"]
    /\ UNCHANGED <<ld, registry, desc, calls, exitStatus, exc, repo_manager,
                   workspace, build_success, build_logs, runNo, presentAtStart>>

\* except Exception as e: print(...); return 1
\* an exception the clause does not catch leaves main() with a traceback
Except(p) ==
    /\ pc[p] = "except"
    /\ IF Catches(exc[p])
       THEN /\ out' = [out EXCEPT ![p] = Append(@, Line("error", 0))]
            /\ ret' = [ret EXCEPT ![p] = ExceptStatus]
            /\ pc' = [pc EXCEPT ![p] = "returned"]
            /\ exc' = [exc EXCEPT ![p] = "none"]
       ELSE /\ pc' = [pc EXCEPT ![p] = "crashed"]
            /\ UNCHANGED <<out, ret, exc>>
    /\ UNCHANGED <<ld, registry, desc, calls, exitStatus, repo_manager, workspace,
                   build_success, build_logs, runNo, presentAtStart>>

\* variant: the RepoManager object is kept alive (a reference to it survives
\* main), its finalizer never runs
FinalizerOutcomes_Never(constructed) == {"none"}

\* repo_manager is a local of main(): when main() returns, the last reference
\* to the RepoManager object goes away and the interpreter runs its __del__,
\* which deletes the clone ("ok") or fails to ("fail"); without such an
\* object there is nothing to finalize ("none")
FinalizerOutcomes(constructed) ==
    IF constructed THEN {"ok", "fail"} ELSE {"none"}

\* main() has returned: its frame is dropped and the interpreter ends.  The
\* finalizer of the RepoManager object (__del__) runs, also after the explicit
\* call of line 101; an error inside it is ignored by the interpreter.
Exit(p) ==
    /\ pc[p] \in {"returned", "crashed"}
    /\ \E gc \in FinalizerOutcomes(repo_manager[p]) :
          /\ calls' = [calls EXCEPT ![p] =
                 IF gc = "none" THEN @
                 ELSE Append(@, Call("finalizer", NoName, gc))]
          /\ workspace' = [workspace EXCEPT ![p] = IF gc = "ok" THEN FALSE ELSE @]
    /\ exitStatus' = [exitStatus EXCEPT ![p] =
           IF pc[p] = "crashed" THEN 1 ELSE ScriptExit(ret[p])]
    /\ pc' = [pc EXCEPT ![p] = "exited"]
    /\ UNCHANGED <<ld, registry, desc, out, ret, exc, repo_manager,
                   build_success, build_logs, runNo, presentAtStart>>

\* the caller starts the script again with the same descriptor
Rerun(p) ==
    /\ pc[p] = "exited"
    /\ runNo[p] < MaxRuns
    /\ runNo' = [runNo EXCEPT ![p] = @ + 1]
    /\ presentAtStart' = [presentAtStart EXCEPT ![p] = InstName(p) \in registry]
    /\ pc' = [pc EXCEPT ![p] = "from_env"]
    /\ calls' = [calls EXCEPT ![p] = <<>>]
    /\ out' = [out EXCEPT ![p] = <<>>]
    /\ ret' = [ret EXCEPT ![p] = -1]
    /\ exitStatus' = [exitStatus EXCEPT ![p] = -1]
    /\ exc' = [exc EXCEPT ![p] = "none"]
    /\ repo_manager' = [repo_manager EXCEPT ![p] = FALSE]
    /\ workspace' = [workspace EXCEPT ![p] = FALSE]
    /\ build_success' = [build_success EXCEPT ![p] = -1]
    /\ build_logs' = [build_logs EXCEPT ![p] = <<>>]
    /\ UNCHANGED <<ld, registry, desc>>

Next ==
    \E p \in Procs :
        \/ FromEnv(p)
        \/ BaseCheck(p)
        \/ BaseBuild(p)
        \/ InstCheck(p)
        \/ Clone(p)
        \/ Checkout(p)
        \/ DockerBuild(p)
        \/ Release(p)
        \/ Report(p)
        \/ Except(p)
        \/ Exit(p)
        \/ Rerun(p)

Spec == Init /\ [][Next]_vars

\* -------------------------------------------------- two concurrent runs
\* Two runs for the same language other than Python are started together on
\* one engine; nothing serialises them, every interleaving of their calls is
\* possible.  The store starts empty and the captured logs are kept short.
InitRace ==
    /\ desc \in [Procs -> Descriptors]
    /\ desc[1].language = desc[2].language
    /\ Lower(desc[1].language) # Lower(PythonLiteral)
    /\ registry = {}
    /\ pc = [p \in Procs |-> "from_env"]
    /\ calls = [p \in Procs |-> <<>>]
    /\ out = [p \in Procs |-> <<>>]
    /\ ret = [p \in Procs |-> -1]
    /\ exitStatus = [p \in Procs |-> -1]
    /\ exc = [p \in Procs |-> "none"]
    /\ repo_manager = [p \in Procs |-> FALSE]
    /\ workspace = [p \in Procs |-> FALSE]
    /\ build_success = [p \in Procs |-> -1]
    /\ build_logs = [p \in Procs |-> <<>>]
    /\ runNo = [p \in Procs |-> 1]
    /\ ld = LdIdle
    /\ presentAtStart = [p \in Procs |->
           ImageId(desc[p].language, desc[p].instance_id) \in registry]

NextRace ==
    \E p \in Procs :
        \/ FromEnv(p)
        \/ BaseCheck(p)
        \/ BaseBuild(p)
        \/ InstCheck(p)
        \/ Clone(p)
        \/ Checkout(p)
        \/ DockerBuild(p) /\ Len(build_logs'[p]) <= RaceLogLines
        \/ Release(p)
        \/ Report(p)
        \/ Except(p)
        \/ Exit(p)

SpecRace == InitRace /\ [][NextRace]_vars

\* ------------------------------------- two runs, one after the other
\* The caller runs the script for one descriptor and, when that run has
\* ended, for a descriptor that differs from the first only in letter case.
\* The environment is the friendly one: no collaborator call fails and the
\* builds log nothing, so a run is determined by its descriptor and the store.
EqualUpToCase(s, t) ==
    /\ Len(s) = Len(t)
    /\ \A i \in DOMAIN s : LowerChar(s[i]) = LowerChar(t[i])

Calm ==
    \A p \in Procs :
        /\ \A i \in DOMAIN calls[p] : calls[p][i].res \in {"ok", "present", "absent"}
        /\ build_logs[p] = <<>>

InitPair ==
    /\ desc \in [Procs -> Descriptors]
    /\ EqualUpToCase(desc[1].language, desc[2].language)
    /\ EqualUpToCase(desc[1].instance_id, desc[2].instance_id)
    /\ registry \in SUBSET { BaseImageId(desc[1].language),
                            ImageId(desc[1].language, desc[1].instance_id) }
    /\ pc = [p \in Procs |-> IF p = 1 THEN "from_env" ELSE "waiting"]
    /\ calls = [p \in Procs |-> <<>>]
    /\ out = [p \in Procs |-> <<>>]
    /\ ret = [p \in Procs |-> -1]
    /\ exitStatus = [p \in Procs |-> -1]
    /\ exc = [p \in Procs |-> "none"]
    /\ repo_manager = [p \in Procs |-> FALSE]
    /\ workspace = [p \in Procs |-> FALSE]
    /\ build_success = [p \in Procs |-> -1]
    /\ build_logs = [p \in Procs |-> <<>>]
    /\ runNo = [p \in Procs |-> 1]
    /\ ld = LdIdle
    /\ presentAtStart = [p \in Procs |->
           p = 1 /\ ImageId(desc[p].language, desc[p].instance_id) \in registry]

\* the caller starts the waiting run once every other run has ended
StartNext(p) ==
    /\ pc[p] = "waiting"
    /\ \A q \in Procs \ {p} : pc[q] = "exited"
    /\ pc' = [pc EXCEPT ![p] = "from_env"]
    /\ presentAtStart' = [presentAtStart EXCEPT ![p] = InstName(p) \in registry]
    /\ UNCHANGED <<ld, registry, desc, calls, out, ret, exitStatus, exc,
                   repo_manager, workspace, build_success, build_logs, runNo>>

NextPair ==
    \E p \in Procs :
        \/ FromEnv(p) /\ Calm'
        \/ BaseCheck(p) /\ Calm'
        \/ BaseBuild(p) /\ Calm'
        \/ InstCheck(p) /\ Calm'
        \/ Clone(p) /\ Calm'
        \/ Checkout(p) /\ Calm'
        \/ DockerBuild(p) /\ Calm'
        \/ Release(p) /\ Calm'
        \/ Report(p)
        \/ Exit(p) /\ Calm'
        \/ StartNext(p)

SpecPair == InitPair /\ [][NextPair]_vars

\* ------------------------------------------------- scripts/load_dataset.py
\* required_columns = ['instance_id', 'language', 'repo', 'base_commit', 'Dockerfile']
RequiredColumns == {"instance_id", "language", "repo", "base_commit", "Dockerfile"}

\* df.iloc[n:] for n >= 0: the frame without its first n rows
Drop(df, n) == IF n >= Len(df) THEN <<>> ELSE SubSeq(df, n + 1, Len(df))
\* df.head(n) for n >= 0: the first n rows of the frame
Take(df, n) == IF n >= Len(df) THEN df ELSE SubSeq(df, 1, n)

\* variant: df.iloc[offset + 1:], one row too many is skipped
ApplyOffset_OffByOne(df, offset) ==
    IF offset # 0 /\ offset > 0 THEN Drop(df, offset + 1) ELSE df

\* if offset and offset > 0: df = df.iloc[offset:]
ApplyOffset(df, offset) ==
    IF offset # 0 /\ offset > 0 THEN Drop(df, offset) ELSE df

\* if limit and limit > 0: df = df.head(limit)
ApplyLimit(df, limit) ==
    IF limit.given /\ limit.val # 0 /\ limit.val > 0 THEN Take(df, limit.val) ELSE df

\* missing_columns = [col for col in required_columns if col not in df.columns]
MissingColumns(columns) == RequiredColumns \ columns

\* json.dumps(row.to_dict()): the line printed for one row
JsonLine(row) == [json |-> row]

\* the values of --offset and --limit that are explored (type=int, limit
\* defaults to None, offset to 0)
Offsets == (0 - 1)..(MaxRows + 1)
Limits == {[given |-> FALSE, val |-> 0]} \cup
          {[given |-> TRUE, val |-> v] : v \in (0 - 1)..(MaxRows + 1)}

\* the script is started on a source of n rows (row i is identified by i)
\* whose frame has some of the required columns; build_instance_image.py
\* is not running
InitLoad ==
    /\ registry = {}
    /\ desc = [p \in Procs |-> [language |-> PythonLiteral,
                                 instance_id |-> <<"x", "1">>]]
    /\ pc = [p \in Procs |-> "idle"]
    /\ calls = [p \in Procs |-> <<>>]
    /\ out = [p \in Procs |-> <<>>]
    /\ ret = [p \in Procs |-> -1]
    /\ exitStatus = [p \in Procs |-> -1]
    /\ exc = [p \in Procs |-> "none"]
    /\ repo_manager = [p \in Procs |-> FALSE]
    /\ workspace = [p \in Procs |-> FALSE]
    /\ build_success = [p \in Procs |-> -1]
    /\ build_logs = [p \in Procs |-> <<>>]
    /\ runNo = [p \in Procs |-> 1]
    /\ presentAtStart = [p \in Procs |-> FALSE]
    /\ \E n \in 0..MaxRows, missing \in SUBSET RequiredColumns,
          o \in Offsets, l \in Limits :
          ld = [pc |-> "load", dataset |-> [i \in 1..n |-> i],
                columns |-> RequiredColumns \ missing, offset |-> o,
                limit |-> l, df |-> <<>>, emitted |-> <<>>, status |-> -1]

\* df = pd.read_csv(...) / load_dataset(...).to_pandas(); a failure to load
\* is an exception
LdLoad ==
    /\ ld.pc = "load"
    /\ \E ok \in BOOLEAN :
          ld' = IF ok THEN [ld EXCEPT !.pc = "window", !.df = ld.dataset]
                ELSE [ld EXCEPT !.pc = "except"]
    /\ UNCHANGED mainVars

\* apply offset, then limit
LdWindow ==
    /\ ld.pc = "window"
    /\ ld' = [ld EXCEPT !.pc = "verify",
                        !.df = ApplyLimit(ApplyOffset(ld.df, ld.offset), ld.limit)]
    /\ UNCHANGED mainVars

\* if missing_columns: ... sys.exit(1)
LdVerify ==
    /\ ld.pc = "verify"
    /\ ld' = IF MissingColumns(ld.columns) # {}
             THEN [ld EXCEPT !.pc = "exited", !.status = 1]
             ELSE [ld EXCEPT !.pc = "emit"]
    /\ UNCHANGED mainVars

\* for _, row in df.iterrows(): print(json.dumps(row.to_dict()))
\* one iteration; json.dumps raises on a value it cannot serialise
LdEmit ==
    /\ ld.pc = "emit"
    /\ Len(ld.emitted) < Len(ld.df)
    /\ \E ok \in BOOLEAN :
          ld' = IF ok
                THEN [ld EXCEPT !.emitted =
                         Append(@, JsonLine(ld.df[Len(ld.emitted) + 1]))]
                ELSE [ld EXCEPT !.pc = "except"]
    /\ UNCHANGED mainVars

\* the loop is over, main() returns and the interpreter ends normally
LdFinish ==
    /\ ld.pc = "emit"
    /\ Len(ld.emitted) = Len(ld.df)
    /\ ld' = [ld EXCEPT !.pc = "exited", !.status = 0]
    /\ UNCHANGED mainVars

\* except Exception as e: ... sys.exit(1)
LdExcept ==
    /\ ld.pc = "except"
    /\ ld' = [ld EXCEPT !.pc = "exited", !.status = 1]
    /\ UNCHANGED mainVars

NextLoad ==
    \/ LdLoad
    \/ LdWindow
    \/ LdVerify
    \/ LdEmit
    \/ LdFinish
    \/ LdExcept

SpecLoad == InitLoad /\ [][NextLoad]_vars

TypeOK ==
    /\ \A p \in Procs :
          /\ ret[p] \in {-1, 0, 1}
          /\ exitStatus[p] \in {-1, 0, 1}
          /\ Len(build_logs[p]) <= MaxLogLines
          /\ runNo[p] \in 1..MaxRuns

\* ------------------------------------------------------------- properties
Returned(p) == pc[p] \in {"returned", "exited"}
Ended(p) == pc[p] \in {"returned", "crashed", "exited"}
Invoked(p, op) == \E i \in DOMAIN calls[p] : calls[p][i].op = op
InvokedWith(p, op, res) ==
    \E i \in DOMAIN calls[p] : calls[p][i].op = op /\ calls[p][i].res = res
\* some call inside the try block raised
Raised(p) == \E i \in DOMAIN calls[p] : calls[p][i].res = "raise"
\* the explicit teardown or the finalizer ran and could not delete the clone
ReleaseFailed(p) ==
    InvokedWith(p, "release", "raise") \/ InvokedWith(p, "finalizer", "fail")
InstanceWork == {"clone_repo", "checkout_commit", "docker_build"}

\* C1 (as stated): a run that starts with its instance image in the store
\* performs no clone and no image build at all and returns 0.
C1_Original ==
    \A p \in Procs :
        (Ended(p) /\ presentAtStart[p]) =>
            /\ ~Invoked(p, "clone_repo")
            /\ ~Invoked(p, "docker_build")
            /\ ~Invoked(p, "build_base_image")
            /\ ret[p] = 0

\* C1 (amended): a run that starts with its instance image in the store never
\* clones, checks out or builds the instance image, and it returns 0 unless a
\* collaborator call raised, in which case it returns 1 (the base image may
\* still be built first).
C1_Idempotence ==
    \A p \in Procs :
        presentAtStart[p] =>
            /\ \A op \in InstanceWork : ~Invoked(p, op)
            /\ pc[p] \notin {"clone", "checkout", "docker_build", "release", "report"}
            /\ Ended(p) => ret[p] = (IF Raised(p) THEN 1 ELSE 0)

\* a second run that found the image the first run had left and returned 0
C1_Witness ==
    \E p \in Procs :
        /\ runNo[p] = 2 /\ presentAtStart[p] /\ pc[p] = "exited"
        /\ InvokedWith(p, "check_inst", "present") /\ ret[p] = 0

\* the instance image is ready: found by the check or built in this run
ImageReady(p) ==
    InvokedWith(p, "check_inst", "present") \/ InvokedWith(p, "docker_build", "ok")
\* one of the failures the claim lists happened in this run
RunFailed(p) ==
    \/ InvokedWith(p, "build_base_image", "fail")
    \/ InvokedWith(p, "docker_build", "fail")
    \/ Raised(p)

\* C2: the exit status of the process is 1 after every failure and 0 when the
\* instance image is ready and nothing failed.
C2_ExitStatusMapping ==
    \A p \in Procs :
        pc[p] = "exited" =>
            /\ RunFailed(p) => exitStatus[p] = 1
            /\ (ImageReady(p) /\ ~RunFailed(p)) => exitStatus[p] = 0

\* C3: after a base build that reported failure or raised, the run neither
\* clones nor builds the instance image and ends with status 1.
C3_BaseBuildFailureFatal ==
    \A p \in Procs :
        (InvokedWith(p, "build_base_image", "fail")
           \/ InvokedWith(p, "build_base_image", "raise")) =>
            /\ ~Invoked(p, "clone_repo")
            /\ ~Invoked(p, "docker_build")
            /\ Ended(p) => ret[p] = 1

NeedsBaseForSure(language) == Lower(language) # Lower(PythonLiteral)

\* C5: for a language that requires a base image, every instance check, clone,
\* checkout and instance build of a run comes after the base existence check
\* of that run has returned and, when it answered "absent", after the base
\* build has returned.
C5_BaseBeforeInstance ==
    \A p \in Procs :
        NeedsBaseForSure(desc[p].language) =>
            /\ pc[p] \in {"inst_check", "clone", "checkout", "docker_build"} =>
                  \E j \in DOMAIN calls[p] :
                      calls[p][j].op = "check_base" /\ calls[p][j].res # "raise"
            /\ \A i \in DOMAIN calls[p] :
                  calls[p][i].op \in {"check_inst"} \cup InstanceWork =>
                      \E j \in 1..(i-1) :
                          /\ calls[p][j].op = "check_base"
                          /\ calls[p][j].res \in {"present", "absent"}
                          /\ calls[p][j].res = "absent" =>
                                \E k \in (j+1)..(i-1) :
                                    /\ calls[p][k].op = "build_base_image"
                                    /\ calls[p][k].res # "raise"

\* a Java run that built the absent base image and then built the instance
C5_Witness ==
    \E p \in Procs :
        /\ NeedsBaseForSure(desc[p].language)
        /\ InvokedWith(p, "check_base", "absent")
        /\ Invoked(p, "build_base_image")
        /\ Invoked(p, "docker_build")

\* C6: an error raised by any collaborator call never leaves main(): the run
\* reaches the except clause and returns 1.
C6_ErrorContainment ==
    \A p \in Procs :
        /\ pc[p] # "crashed"
        /\ exc[p] # "none" => pc[p] = "except"
        /\ (Ended(p) /\ Raised(p)) => ret[p] = 1

\* the explicit teardown raised after a successful build and main returned 1
C6_Witness ==
    \E p \in Procs :
        /\ pc[p] = "returned" /\ ret[p] = 1
        /\ InvokedWith(p, "docker_build", "ok")
        /\ InvokedWith(p, "release", "raise")

C8_QueryErrorNotAbsent ==
    \A p \in Procs :
        \A i \in DOMAIN calls[p] :
            (calls[p][i].op \in {"check_base", "check_inst"}
               /\ calls[p][i].res = "raise") =>
                /\ \A j \in (i+1)..Len(calls[p]) :
                      calls[p][j].op \notin {"build_base_image"} \cup InstanceWork
                /\ pc[p] \in {"except", "returned", "exited"}
                /\ Returned(p) => ret[p] = 1

\* the base check raised in a run whose base image was absent; the run ended
\* with 1 and the store still has no base image
C8_Witness ==
    \E p \in Procs :
        /\ pc[p] = "exited" /\ ret[p] = 1
        /\ InvokedWith(p, "check_base", "raise")
        /\ BaseName(p) \notin registry

\* the log lines of the excerpt a run printed, in printing order
Excerpt(p) ==
    LET ls == SelectSeq(out[p], LAMBDA e : e.k = "log")
    IN [i \in DOMAIN ls |-> ls[i].v]
Printed(p, k) == \E i \in DOMAIN out[p] : out[p][i].k = k

\* C9 (as stated): after a failed instance build with a captured log of n
\* lines the run has printed an excerpt of min(n, 10) lines, the last
\* min(n, 10) lines of the log in their order, and for n = 0 nothing of the
\* excerpt.
C9_Original ==
    \A p \in Procs :
        (Returned(p) /\ InvokedWith(p, "docker_build", "fail")) =>
            LET n == Len(build_logs[p])
                m == IF n < 10 THEN n ELSE 10
            IN /\ Len(Excerpt(p)) = m
               /\ \A i \in 1..m : Excerpt(p)[i] = build_logs[p][n - m + i]
               /\ Printed(p, "logs_header") <=> n > 0

\* C9 (amended): after a failed instance build with a captured log of n
\* lines, a run whose teardown at line 101 did not raise has printed the
\* failure line and an excerpt that is the last min(n, 10) lines of the log
\* in their order (for n = 0 nothing of the excerpt, not even its header); a
\* run whose teardown raised has printed the error line and no excerpt.
C9_LogTruncation ==
    \A p \in Procs :
        (Returned(p) /\ InvokedWith(p, "docker_build", "fail")) =>
            LET n == Len(build_logs[p])
                m == IF n < 10 THEN n ELSE 10
            IN IF ~Raised(p)
               THEN /\ Printed(p, "failed")
                    /\ Len(Excerpt(p)) = m
                    /\ \A i \in 1..m : Excerpt(p)[i] = build_logs[p][n - m + i]
                    /\ Printed(p, "logs_header") <=> n > 0
               ELSE /\ InvokedWith(p, "release", "raise")
                    /\ Printed(p, "error")
                    /\ ~Printed(p, "failed")
                    /\ Excerpt(p) = <<>>
                    /\ ~Printed(p, "logs_header")

\* a failed build with more than ten captured lines was reported
C9_Witness ==
    \E p \in Procs :
        /\ pc[p] = "returned" /\ ret[p] = 1
        /\ Len(build_logs[p]) > 10
        /\ Len(Excerpt(p)) = 10

\* two strings are equal up to the letter case of their ASCII letters
SameUpToCase(s, t) ==
    /\ Len(s) = Len(t)
    /\ \A i \in DOMAIN s :
          \/ s[i] = t[i]
          \/ \E k \in DOMAIN UpperChars :
                {s[i], t[i]} = {UpperChars[k], LowerChars[k]}
HasUpper(s) == \E i \in DOMAIN s, k \in DOMAIN UpperChars : s[i] = UpperChars[k]

\* C10: the names a run hands to the store and the builder contain no
\* upper-case letter, and every descriptor that differs from the run's
\* descriptor only in letter case derives the same base name and the same
\* instance name as the ones the run used.
C10_DeterministicNaming ==
    \A p \in Procs :
        \A d \in Descriptors :
            (SameUpToCase(d.language, desc[p].language)
               /\ SameUpToCase(d.instance_id, desc[p].instance_id)) =>
                /\ BaseImageId(d.language) = BaseImageId(desc[p].language)
                /\ ImageId(d.language, d.instance_id) = InstName(p)
                /\ \A i \in DOMAIN calls[p] :
                      /\ ~HasUpper(calls[p][i].name)
                      /\ calls[p][i].op \in {"check_base", "build_base_image"} =>
                            calls[p][i].name = BaseImageId(d.language)
                      /\ calls[p][i].op \in {"check_inst", "docker_build"} =>
                            calls[p][i].name = ImageId(d.language, d.instance_id)

\* a run for language "Java", id "X1" has checked the base and the instance name
C10_Witness ==
    \E p \in Procs :
        /\ HasUpper(desc[p].language) /\ HasUpper(desc[p].instance_id)
        /\ Invoked(p, "check_base") /\ Invoked(p, "check_inst")
        /\ \E d \in Descriptors :
              /\ d # desc[p]
              /\ SameUpToCase(d.language, desc[p].language)
              /\ SameUpToCase(d.instance_id, desc[p].instance_id)

\* C11 (as stated): the name a run uses for its instance image differs from
\* the instance image name of every descriptor with a different instance id.
C11_Original ==
    \A p \in Procs :
        \A i \in DOMAIN calls[p] :
            calls[p][i].op \in {"check_inst", "docker_build"} =>
                \A d \in Descriptors :
                    d.instance_id # desc[p].instance_id =>
                        calls[p][i].name # ImageId(d.language, d.instance_id)

\* C11 (amended): the name a run uses for its instance image differs from the
\* instance image name of every descriptor of the same language (up to letter
\* case) whose instance id differs by more than letter case.
C11_CollisionFree ==
    \A p \in Procs :
        \A i \in DOMAIN calls[p] :
            calls[p][i].op \in {"check_inst", "docker_build"} =>
                \A d \in Descriptors :
                    (SameUpToCase(d.language, desc[p].language)
                       /\ ~SameUpToCase(d.instance_id, desc[p].instance_id)) =>
                        calls[p][i].name # ImageId(d.language, d.instance_id)

\* a run for id "X1" built its image; id "base" is another id of the language
C11_Witness ==
    \E p \in Procs :
        /\ InvokedWith(p, "docker_build", "ok")
        /\ \E d \in Descriptors :
              /\ SameUpToCase(d.language, desc[p].language)
              /\ ~SameUpToCase(d.instance_id, desc[p].instance_id)

\* number of calls of a run whose operation is in ops
CountCalls(p, ops) ==
    Cardinality({i \in DOMAIN calls[p] : calls[p][i].op \in ops})

\* C12: in a run in which clone created the workspace, the release operation
\* (explicit teardown or finalizer) has been invoked exactly once when the run
\* has ended.
C12_ReleaseExactlyOnce ==
    \A p \in Procs :
        (pc[p] = "exited" /\ InvokedWith(p, "clone_repo", "ok")) =>
            CountCalls(p, {"release", "finalizer"}) = 1

\* C13: a run invokes the base build at most once, and only directly after
\* its own base existence check answered "absent"; after the answer "present"
\* it invokes no base build.
C13_BaseBuildGuard ==
    \A p \in Procs :
        /\ CountCalls(p, {"build_base_image"}) <= 1
        /\ \A i \in DOMAIN calls[p] :
              calls[p][i].op = "build_base_image" =>
                  /\ i > 1
                  /\ calls[p][i-1].op = "check_base"
                  /\ calls[p][i-1].res = "absent"
        /\ InvokedWith(p, "check_base", "present") => ~Invoked(p, "build_base_image")
        /\ pc[p] = "base_build" => calls[p][Len(calls[p])].res = "absent"

\* a run ended after one base build that followed the answer "absent"
C13_Witness ==
    \E p \in Procs :
        /\ pc[p] = "exited"
        /\ InvokedWith(p, "check_base", "absent")
        /\ CountCalls(p, {"build_base_image"}) = 1

\* C14: once the engine client exists, a run for language "Python" makes the
\* instance check its next call and never checks or builds a base image; a run
\* for any other language makes the existence check of
\* polybench_<language>_base its next call.
C14_BaseRequirement ==
    \A p \in Procs :
        /\ desc[p].language = PythonLiteral =>
              /\ ~Invoked(p, "check_base") /\ ~Invoked(p, "build_base_image")
              /\ pc[p] \notin {"base_check", "base_build"}
              /\ (Len(calls[p]) >= 2 /\ calls[p][1].res = "ok") =>
                     calls[p][2].op = "check_inst"
        /\ desc[p].language # PythonLiteral =>
              /\ (Len(calls[p]) = 1 /\ calls[p][1].res = "ok") => pc[p] = "base_check"
              /\ (Len(calls[p]) >= 2 /\ calls[p][1].res = "ok") =>
                     /\ calls[p][2].op = "check_base"
                     /\ calls[p][2].name =
                           PolybenchPrefix \o Lower(desc[p].language) \o BaseSuffix

\* a Python run went from the client straight to the instance check
C14_Witness ==
    \E p \in Procs :
        /\ desc[p].language = PythonLiteral
        /\ Len(calls[p]) >= 2 /\ calls[p][2].op = "check_inst"

\* C16: a run invokes clone, checkout and the instance build at most once
\* each; clone directly follows the instance check that answered "absent",
\* checkout directly follows the successful clone and the instance build
\* directly follows the successful checkout, on the workspace of this run.
C16_StrictSequence ==
    \A p \in Procs :
        /\ \A op \in InstanceWork : CountCalls(p, {op}) <= 1
        /\ \A i \in DOMAIN calls[p] :
              /\ calls[p][i].op = "clone_repo" =>
                    /\ i > 1
                    /\ calls[p][i-1].op = "check_inst"
                    /\ calls[p][i-1].res = "absent"
              /\ calls[p][i].op = "checkout_commit" =>
                    /\ i > 1
                    /\ calls[p][i-1].op = "clone_repo"
                    /\ calls[p][i-1].res = "ok"
              /\ calls[p][i].op = "docker_build" =>
                    /\ i > 1
                    /\ calls[p][i-1].op = "checkout_commit"
                    /\ calls[p][i-1].res = "ok"
        /\ pc[p] = "docker_build" => workspace[p]

\* a run cloned, checked out and built, one after the other
C16_Witness ==
    \E p \in Procs :
        /\ Invoked(p, "clone_repo") /\ Invoked(p, "checkout_commit")
        /\ Invoked(p, "docker_build")

Announcements == {"exists", "success", "failed", "error"}
CountLines(p, kinds) ==
    Cardinality({i \in DOMAIN out[p] : out[p][i].k \in kinds})

\* C18: a run that has returned has printed exactly one announcement line
\* (exists / success / failed / error), a run that has not returned none; the
\* log excerpt is printed only by a run whose instance build returned a
\* non-zero result.
C18_Announcements ==
    \A p \in Procs :
        /\ Returned(p) => CountLines(p, Announcements) = 1
        /\ pc[p] \notin {"returned", "exited", "idle"} =>
              CountLines(p, Announcements) = 0
        /\ CountLines(p, {"logs_header", "log"}) > 0 =>
              /\ InvokedWith(p, "docker_build", "fail")
              /\ Printed(p, "failed")
              /\ ~Raised(p)

\* a failed build was announced once, with an excerpt
C18_Witness ==
    \E p \in Procs :
        /\ pc[p] = "exited"
        /\ CountLines(p, {"failed"}) = 1
        /\ CountLines(p, {"log"}) > 0

\* C19: the name a run hands to the instance existence check is the base
\* image name polybench_<l>_base of no language l (so that a base image in the
\* store can never answer that check).
C19_DisjointNameSpaces ==
    \A p \in Procs :
        \A i \in DOMAIN calls[p] :
            calls[p][i].op = "check_inst" =>
                \A l \in Languages : calls[p][i].name # BaseImageId(l)

\* the status the outcomes of a run's own collaborator calls determine
OwnStatus(p) ==
    IF Raised(p) THEN 1
    ELSE IF InvokedWith(p, "check_inst", "present") THEN 0
    ELSE IF InvokedWith(p, "docker_build", "ok") THEN 0
    ELSE 1

\* C17: with two concurrent runs for the same language, in every interleaving
\* a run that has returned has the status that the outcomes of its own
\* collaborator calls determine, whatever the other run did; and no run waits
\* for the other: a run that has not ended can always take its next step.
\* (That both runs can observe the base image absent and both build it is the
\* reachable state C17_Witness.)
C17_UnserializedRace ==
    \A p \in Procs :
        /\ Returned(p) => ret[p] = OwnStatus(p)
        /\ pc[p] # "crashed"
        /\ pc[p] \notin {"exited", "idle"} =>
              ENABLED (FromEnv(p) \/ BaseCheck(p) \/ BaseBuild(p) \/ InstCheck(p)
                         \/ Clone(p) \/ Checkout(p) \/ DockerBuild(p)
                         \/ Release(p) \/ Report(p) \/ Except(p) \/ Exit(p))

\* both runs saw the base image absent and both invoked the base build for
\* the same name, and both have ended
C17_Witness ==
    /\ \A p \in Procs :
          /\ pc[p] = "exited"
          /\ InvokedWith(p, "check_base", "absent")
          /\ InvokedWith(p, "build_base_image", "ok")
    /\ BaseName(1) = BaseName(2)

\* the image names a run handed to the existence checks / to the builders
NamesChecked(p) ==
    {calls[p][i].name : i \in {j \in DOMAIN calls[p] :
                                  calls[p][j].op \in {"check_base", "check_inst"}}}
NamesBuilt(p) ==
    {calls[p][i].name : i \in {j \in DOMAIN calls[p] :
                                  calls[p][j].op \in {"build_base_image", "docker_build"}}}
\* the run put no image into the store, the store is as it was at its start
StoreUntouched(p) ==
    ~InvokedWith(p, "build_base_image", "ok") /\ ~InvokedWith(p, "docker_build", "ok")

\* C15: two runs whose descriptors differ only in letter case and that start
\* from the same store (the first run left the store untouched) check the same
\* set of image names, build the same set of image names and return the same
\* status.
C15_CaseInsensitiveRun ==
    (pc[1] = "exited" /\ pc[2] = "exited" /\ StoreUntouched(1)) =>
        /\ NamesChecked(1) = NamesChecked(2)
        /\ NamesBuilt(1) = NamesBuilt(2)
        /\ ret[1] = ret[2]

\* the rows (in source order) whose 0-based index i satisfies lo <= i and,
\* when bounded, i < hi; row r of the source has index r - 1
RowsBetween(rows, lo, bounded, hi) ==
    SelectSeq(rows, LAMBDA r : lo <= r - 1 /\ (bounded => r - 1 < hi))
Lines(rows) == [i \in DOMAIN rows |-> [json |-> rows[i]]]
IsPrefix(s, t) == Len(s) <= Len(t) /\ \A i \in DOMAIN s : s[i] = t[i]

\* C20 (as stated): a run that ends with status 0 has emitted, in order, one
\* line for each row with index in [offset, offset + limit) (from offset on
\* when limit is unset) and for no other row; a run on a frame that lacks a
\* required column ends with status 1 and has emitted nothing.
C20_Original ==
    ld.pc = "exited" =>
        /\ ld.status = 0 =>
              ld.emitted = Lines(RowsBetween(ld.dataset, ld.offset,
                                             ld.limit.given, ld.offset + ld.limit.val))
        /\ MissingColumns(ld.columns) # {} => ld.status = 1 /\ ld.emitted = <<>>

\* C20 (amended): with lo = max(offset, 0), the lines emitted so far are
\* always a prefix of the lines of the rows with index in [lo, lo + limit)
\* when limit >= 1, of all rows from lo on when limit is unset or <= 0; a run
\* that ends with status 0 has emitted all of them; a run on a frame that
\* lacks a required column emits nothing and ends with status 1.
C20_Windowing ==
    LET lo == IF ld.offset > 0 THEN ld.offset ELSE 0
        bounded == ld.limit.given /\ ld.limit.val >= 1
        want == Lines(RowsBetween(ld.dataset, lo, bounded, lo + ld.limit.val))
    IN /\ IsPrefix(ld.emitted, want)
       /\ (ld.pc = "exited" /\ ld.status = 0) => ld.emitted = want
       /\ MissingColumns(ld.columns) # {} =>
             /\ ld.emitted = <<>>
             /\ ld.pc = "exited" => ld.status = 1

\* a run with offset 1 and limit 1 on three rows emitted exactly the second row
C20_Witness ==
    /\ ld.pc = "exited" /\ ld.status = 0
    /\ Len(ld.dataset) = 3 /\ ld.offset = 1
    /\ ld.limit.given /\ ld.limit.val = 1
    /\ ld.emitted = <<[json |-> 2]>>
====
